---- MODULE Spec2Model ----
(***************************************************************************)
(* Model of src/app.py: the /analyze request handler (upload validation,   *)
(* PDF rasterization into temporary page images, vertical compositing,     *)
(* six sequential model calls, encoding, cleanup), the layout computed by  *)
(* combine_images_vertically and the text normalisation clean_result.      *)
(***************************************************************************)
EXTENDS Integers, Sequences, FiniteSets, TLC

VARIABLES st, fs, clientOk,
          cimgs, cpc, canvas, y_offset, pastes, cret,
          sin, spc, sout, sout2

pipeVars == <<st, fs, clientOk>>
compVars == <<cimgs, cpc, canvas, y_offset, pastes, cret>>
cleanVars == <<sin, spc, sout, sout2>>
vars == <<st, fs, clientOk, cimgs, cpc, canvas, y_offset, pastes, cret,
          sin, spc, sout, sout2>>

(* ------------------------------ bounds -------------------------------- *)
\* largest number of pages convert_from_path yields for one upload
MaxPages == 2
\* longest page sequence handed to combine_images_vertically on its own
MaxImgs == 3
\* largest page width and height, in pixels
MaxDim == 2
\* longest string handed to clean_result on its own
MaxLen == 3

(* --------------------------- files and names -------------------------- *)
\* outcomes of next(tempfile._get_candidate_names()): a random name drawn
\* with no check against the names already in use
Names == {"a", "b"}

\* Python's None, as a value of composite_image_path and of temp_paths
None == <<"None", 0, "">>
\* a local variable not assigned yet
Unset == <<"unset", 0, "">>

\* os.path.join(output_folder, name + ".pdf")
PdfPath(n) == <<"pdf", 0, n>>
\* os.path.join(output_folder, f"page_{i}_{name}.png")
PagePath(i, n) == <<"page", i, n>>
\* os.path.join(output_folder, f"composite_{name}.png")
CompositePath(n) == <<"composite", 0, n>>

AllPaths == {PdfPath(n) : n \in Names}
              \cup {PagePath(i, n) : i \in 1..MaxPages, n \in Names}
              \cup {CompositePath(n) : n \in Names}

\* request.files.get('pdf_file'): absent, present with filename '', present
Uploads == {"missing", "emptyname", "valid"}

\* the keys of the results dict literal, in evaluation order
SectionKeys == <<"health_summary", "glance_parameters", "potential_risks",
                 "diet_recommendations", "consolidated_guidance", "final_summary">>

(* ----------------------------- clean_result --------------------------- *)
\* the class [\x00-\x7F]
IsAscii(c) == c >= 0 /\ c <= 127

\* the code points str.strip() removes (str.isspace)
IsSpace(c) == c \in (9..13) \cup (28..32) \cup {133, 160, 5760} \cup (8192..8202)
                     \cup {8232, 8233, 8239, 8287, 12288}

\* end of the maximal run matched by [^\x00-\x7F]+ starting at position i
RECURSIVE RunEnd(_, _)
RunEnd(s, i) == IF i <= Len(s) /\ ~IsAscii(s[i]) THEN RunEnd(s, i + 1) ELSE i

\* re.sub(r"[^\x00-\x7F]+", "", result), scanning from position i
RECURSIVE re_sub(_, _)
re_sub(s, i) == IF i > Len(s) THEN <<>>
                ELSE IF IsAscii(s[i]) THEN <<s[i]>> \o re_sub(s, i + 1)
                ELSE re_sub(s, RunEnd(s, i))

RECURSIVE lstrip(_)
lstrip(s) == IF s # <<>> /\ IsSpace(Head(s)) THEN lstrip(Tail(s)) ELSE s

RECURSIVE rstrip(_)
rstrip(s) == IF s # <<>> /\ IsSpace(s[Len(s)]) THEN rstrip(SubSeq(s, 1, Len(s) - 1)) ELSE s

\* str.strip()
strip(s) == rstrip(lstrip(s))

\* a slip: trimming before the non-ASCII code points are removed
clean_result_StripFirst(result) == re_sub(strip(result), 1)

clean_result(result) == strip(re_sub(result, 1))

\* response.text of a successful generate_content call
RawTexts == {<<233, 72, 105, 32>>}

(* ------------------------- the request handler ------------------------ *)
NoResp == [kind |-> "none", cause |-> "", results |-> <<>>]
Redirect == [kind |-> "redirect", cause |-> "No file selected.", results |-> <<>>]
ErrorResp(c) == [kind |-> "error", cause |-> c, results |-> <<>>]
Rendered(res) == [kind |-> "rendered", cause |-> "", results |-> res]
\* the exception leaving analyze through its finally clause
Crash == [kind |-> "crash", cause |-> "TypeError", results |-> <<>>]

\* one invocation of analyze, before its first statement
Fresh == [pc |-> "start", upload |-> "none", temp_pdf_path |-> Unset,
          npages |-> 0, image_paths |-> <<>>, temp_paths |-> <<>>,
          composite_path |-> Unset, results |-> <<>>, raws |-> <<>>,
          exc |-> "none", raster |-> "none", retval |-> NoResp,
          response |-> NoResp, ci |-> 1, rmFailed |-> FALSE, live |-> {}]

Reqs == DOMAIN st

\* an exception reaching the except clause of analyze: the error page is the
\* return value, and the finally clause runs next
Fail(s, c) == [s EXCEPT !.pc = "cleanup", !.retval = ErrorResp(c), !.ci = 1]

\* a slip: the empty-filename test left out
analyze_validate_NoNameCheck(r) ==
    /\ st[r].pc = "start"
    /\ \E u \in Uploads :
         st' = [st EXCEPT ![r] =
                  IF u = "missing"
                    THEN [@ EXCEPT !.upload = u, !.pc = "done", !.response = Redirect]
                    ELSE [@ EXCEPT !.upload = u, !.pc = "save_pdf", !.temp_paths = <<>>]]
    /\ UNCHANGED fs

\* analyze, lines 216-221
analyze_validate(r) ==
    /\ st[r].pc = "start"
    /\ \E u \in Uploads :
         st' = [st EXCEPT ![r] =
                  IF u # "valid"
                    THEN [@ EXCEPT !.upload = u, !.pc = "done", !.response = Redirect]
                    ELSE [@ EXCEPT !.upload = u, !.pc = "save_pdf", !.temp_paths = <<>>]]
    /\ UNCHANGED fs

\* pdf_to_images, lines 48-49: the name is drawn and the upload written to it,
\* outside the try block
pdf_to_images_save(r) ==
    /\ st[r].pc = "save_pdf"
    /\ \E n \in Names :
         LET p == PdfPath(n)
             made == [st[r] EXCEPT !.temp_pdf_path = p, !.live = @ \cup {p}]
         IN  \/ /\ fs' = [fs EXCEPT ![p] = r]
                /\ st' = [st EXCEPT ![r] = [made EXCEPT !.pc = "convert"]]
             \* the write fails after the file was created
             \/ /\ fs' = [fs EXCEPT ![p] = r]
                /\ st' = [st EXCEPT ![r] = Fail([made EXCEPT !.raster = "failed"], "save")]
             \* the file cannot be created
             \/ /\ fs' = fs
                /\ st' = [st EXCEPT ![r] =
                            Fail([@ EXCEPT !.temp_pdf_path = p, !.raster = "failed"], "save")]

\* pdf_to_images, line 53
pdf_to_images_convert(r) ==
    /\ st[r].pc = "convert"
    /\ \/ st' = [st EXCEPT ![r] = [@ EXCEPT !.exc = "convert", !.pc = "remove_pdf"]]
       \/ /\ fs[st[r].temp_pdf_path] # 0
          /\ \E n \in 0..MaxPages :
               st' = [st EXCEPT ![r] =
                        [@ EXCEPT !.npages = n,
                                  !.pc = IF n = 0 THEN "remove_pdf" ELSE "save_page"]]
    /\ UNCHANGED fs

\* pdf_to_images, lines 54-57: one iteration of the loop
pdf_to_images_save_page(r) ==
    /\ st[r].pc = "save_page"
    /\ LET i == Len(st[r].image_paths) + 1
       IN  \/ \E n \in Names :
                LET p == PagePath(i, n)
                IN  /\ fs' = [fs EXCEPT ![p] = r]
                    /\ st' = [st EXCEPT ![r] =
                                [@ EXCEPT !.image_paths = Append(@, p),
                                          !.live = @ \cup {p},
                                          !.pc = IF i = st[r].npages
                                                   THEN "remove_pdf" ELSE "save_page"]]
           \* image.save raises, leaving no file of its own behind
           \/ /\ fs' = fs
              /\ st' = [st EXCEPT ![r] = [@ EXCEPT !.exc = "pagesave", !.pc = "remove_pdf"]]

\* pdf_to_images, lines 58-61, and analyze, line 226
pdf_to_images_finally(r) ==
    /\ st[r].pc = "remove_pdf"
    /\ LET p == st[r].temp_pdf_path
       IN  \/ /\ fs[p] # 0
              /\ fs' = [fs EXCEPT ![p] = 0]
              /\ st' = [st EXCEPT ![r] =
                          IF st[r].exc = "none"
                            THEN [@ EXCEPT !.live = @ \ {p}, !.raster = "ok",
                                           !.temp_paths = @ \o st[r].image_paths,
                                           !.pc = "combine"]
                            ELSE Fail([@ EXCEPT !.live = @ \ {p}, !.raster = "failed"],
                                      st[r].exc)]
           \* os.remove raises OSError, which replaces any pending exception
           \/ /\ fs' = fs
              /\ st' = [st EXCEPT ![r] =
                          Fail([@ EXCEPT !.rmFailed = TRUE, !.raster = "failed"], "remove")]

\* analyze, lines 229-230, calling combine_images_vertically, lines 69-86
analyze_combine(r) ==
    /\ st[r].pc = "combine"
    /\ IF st[r].image_paths = <<>>
         THEN /\ fs' = fs
              /\ st' = [st EXCEPT ![r] =
                          [@ EXCEPT !.composite_path = None,
                                    !.temp_paths = Append(@, None),
                                    !.pc = "analyze"]]
         ELSE \/ /\ \A k \in 1..Len(st[r].image_paths) : fs[st[r].image_paths[k]] # 0
                 /\ \E n \in Names :
                      LET p == CompositePath(n)
                      IN  /\ fs' = [fs EXCEPT ![p] = r]
                          /\ st' = [st EXCEPT ![r] =
                                      [@ EXCEPT !.composite_path = p,
                                                !.temp_paths = Append(@, p),
                                                !.live = @ \cup {p},
                                                !.pc = "analyze"]]
              \* Image.open or composite_image.save raises
              \/ /\ fs' = fs
                 /\ st' = [st EXCEPT ![r] = Fail(@, "combine")]

\* the value analyze_image returns from its except clause
ErrorIndicator(key) == [key |-> key, err |-> TRUE, text |-> <<>>]

\* a slip: the exception of a model call is not caught
analyze_image_NoCatch(r) ==
    /\ st[r].pc = "analyze"
    /\ LET k == Len(st[r].results) + 1
           nxt == IF k = Len(SectionKeys) THEN "encode" ELSE "analyze"
       IN  \/ st' = [st EXCEPT ![r] = Fail([@ EXCEPT !.raws = Append(@, [ok |-> FALSE, raw |-> <<>>])], "model")]
           \/ /\ st[r].composite_path # None
              /\ fs[st[r].composite_path] # 0
              /\ clientOk
              /\ \E t \in RawTexts :
                   st' = [st EXCEPT ![r] =
                            [@ EXCEPT !.results = Append(@, [key |-> SectionKeys[k],
                                                             err |-> FALSE,
                                                             text |-> clean_result(t)]),
                                      !.raws = Append(@, [ok |-> TRUE, raw |-> t]),
                                      !.pc = nxt]]
    /\ UNCHANGED fs

\* analyze, lines 233-240: one analyze_image call (lines 114-136)
analyze_image(r) ==
    /\ st[r].pc = "analyze"
    /\ LET k == Len(st[r].results) + 1
           nxt == IF k = Len(SectionKeys) THEN "encode" ELSE "analyze"
       IN  \* Image.open, generate_content or clean_result raises
           \/ st' = [st EXCEPT ![r] =
                       [@ EXCEPT !.results = Append(@, ErrorIndicator(SectionKeys[k])),
                                 !.raws = Append(@, [ok |-> FALSE, raw |-> <<>>]),
                                 !.pc = nxt]]
           \/ /\ st[r].composite_path # None
              /\ fs[st[r].composite_path] # 0
              /\ clientOk
              /\ \E t \in RawTexts :
                   st' = [st EXCEPT ![r] =
                            [@ EXCEPT !.results = Append(@, [key |-> SectionKeys[k],
                                                             err |-> FALSE,
                                                             text |-> clean_result(t)]),
                                      !.raws = Append(@, [ok |-> TRUE, raw |-> t]),
                                      !.pc = nxt]]
    /\ UNCHANGED fs

\* analyze, lines 243-249: encode_image_to_base64 (lines 104-110) and the
\* rendering of the result page
analyze_encode(r) ==
    /\ st[r].pc = "encode"
    /\ \/ st' = [st EXCEPT ![r] = Fail(@, "encode")]
       \/ /\ st[r].composite_path # None
          /\ fs[st[r].composite_path] # 0
          /\ st' = [st EXCEPT ![r] =
                      [@ EXCEPT !.retval = Rendered(st[r].results),
                                !.ci = 1, !.pc = "cleanup"]]
    /\ UNCHANGED fs

\* analyze, lines 251-253: one iteration of cleanup_temp_files (lines 89-95),
\* or the handler's return once the loop is over
cleanup_temp_files(r) ==
    /\ st[r].pc = "cleanup"
    /\ IF st[r].ci > Len(st[r].temp_paths)
         THEN /\ fs' = fs
              /\ st' = [st EXCEPT ![r] = [@ EXCEPT !.response = st[r].retval, !.pc = "done"]]
         ELSE LET p == st[r].temp_paths[st[r].ci]
              IN  IF p = None
                    \* os.remove(None) raises TypeError, which is no OSError
                    THEN /\ fs' = fs
                         /\ st' = [st EXCEPT ![r] =
                                     [@ EXCEPT !.response = Crash, !.pc = "done"]]
                    ELSE \/ /\ fs[p] # 0
                            /\ fs' = [fs EXCEPT ![p] = 0]
                            /\ st' = [st EXCEPT ![r] =
                                        [@ EXCEPT !.live = @ \ {p}, !.ci = @ + 1]]
                         \* OSError, caught and printed
                         \/ /\ fs' = fs
                            /\ st' = [st EXCEPT ![r] =
                                        [@ EXCEPT !.rmFailed = TRUE, !.ci = @ + 1]]

\* the variables of the other specifications, at rest
CompIdle == /\ cimgs = <<>> /\ cpc = "idle" /\ canvas = <<0, 0>> /\ y_offset = 0
            /\ pastes = <<>> /\ cret = "none"
CleanIdle == sin = <<>> /\ spc = "idle" /\ sout = <<>> /\ sout2 = <<>>

\* module start-up, lines 16-30 (the client may fail to initialise), an empty
\* temporary folder, and one request
Init ==
    /\ st = [r \in {1} |-> Fresh]
    /\ fs = [p \in AllPaths |-> 0]
    /\ clientOk \in BOOLEAN
    /\ CompIdle /\ CleanIdle

Next ==
    \/ \E r \in Reqs : analyze_validate(r) /\ UNCHANGED <<clientOk, compVars, cleanVars>>
    \/ \E r \in Reqs : pdf_to_images_save(r) /\ UNCHANGED <<clientOk, compVars, cleanVars>>
    \/ \E r \in Reqs : pdf_to_images_convert(r) /\ UNCHANGED <<clientOk, compVars, cleanVars>>
    \/ \E r \in Reqs : pdf_to_images_save_page(r) /\ UNCHANGED <<clientOk, compVars, cleanVars>>
    \/ \E r \in Reqs : pdf_to_images_finally(r) /\ UNCHANGED <<clientOk, compVars, cleanVars>>
    \/ \E r \in Reqs : analyze_combine(r) /\ UNCHANGED <<clientOk, compVars, cleanVars>>
    \/ \E r \in Reqs : analyze_image(r) /\ UNCHANGED <<clientOk, compVars, cleanVars>>
    \/ \E r \in Reqs : analyze_encode(r) /\ UNCHANGED <<clientOk, compVars, cleanVars>>
    \/ \E r \in Reqs : cleanup_temp_files(r) /\ UNCHANGED <<clientOk, compVars, cleanVars>>

Spec == Init /\ [][Next]_vars

\* two requests served concurrently (the server handles each request in its
\* own thread), with the model client not initialised
InitConc ==
    /\ st = [r \in {1, 2} |-> Fresh]
    /\ fs = [p \in AllPaths |-> 0]
    /\ clientOk = FALSE
    /\ CompIdle /\ CleanIdle

SpecConc == InitConc /\ [][Next]_vars

(* -------------------- combine_images_vertically ----------------------- *)
\* the sizes of the images opened at line 72
PageSizes == [w : 1..MaxDim, h : 1..MaxDim]

SeqsUpTo(S, n) == UNION {[1..k -> S] : k \in 0..n}

\* max(image.width for image in images), over the first n images
RECURSIVE MaxWidth(_, _)
MaxWidth(imgs, n) ==
    IF n = 1 THEN imgs[1].w
    ELSE LET m == MaxWidth(imgs, n - 1) IN IF imgs[n].w > m THEN imgs[n].w ELSE m

\* sum(image.height for image in images), over the first n images
RECURSIVE SumHeight(_, _)
SumHeight(imgs, n) == IF n = 0 THEN 0 ELSE SumHeight(imgs, n - 1) + imgs[n].h

\* combine_images_vertically, lines 69-77
combine_images_vertically_begin ==
    /\ cpc = "start"
    /\ IF cimgs = <<>>
         THEN /\ cret' = "None"
              /\ cpc' = "done"
              /\ UNCHANGED <<canvas, y_offset>>
         ELSE /\ canvas' = <<MaxWidth(cimgs, Len(cimgs)), SumHeight(cimgs, Len(cimgs))>>
              /\ y_offset' = 0
              /\ cpc' = "paste"
              /\ cret' = cret
    /\ UNCHANGED <<cimgs, pastes>>

\* a slip: the offset is advanced before the image is pasted
combine_images_vertically_paste_OffsetFirst ==
    /\ cpc = "paste"
    /\ LET i == Len(pastes) + 1
       IN  /\ y_offset' = y_offset + cimgs[i].h
           /\ pastes' = Append(pastes, [src |-> i, x |-> 0, y |-> y_offset'])
           /\ cpc' = IF i = Len(cimgs) THEN "save" ELSE "paste"
    /\ UNCHANGED <<cimgs, canvas, cret>>

\* combine_images_vertically, lines 78-81: one iteration of the loop
combine_images_vertically_paste ==
    /\ cpc = "paste"
    /\ LET i == Len(pastes) + 1
       IN  /\ pastes' = Append(pastes, [src |-> i, x |-> 0, y |-> y_offset])
           /\ y_offset' = y_offset + cimgs[i].h
           /\ cpc' = IF i = Len(cimgs) THEN "save" ELSE "paste"
    /\ UNCHANGED <<cimgs, canvas, cret>>

\* combine_images_vertically, lines 83-86
combine_images_vertically_save ==
    /\ cpc = "save"
    /\ cret' \in {"composite_path", "raise"}
    /\ cpc' = "done"
    /\ UNCHANGED <<cimgs, canvas, y_offset, pastes>>

InitCompose ==
    /\ cimgs \in SeqsUpTo(PageSizes, MaxImgs)
    /\ cpc = "start" /\ canvas = <<0, 0>> /\ y_offset = 0 /\ pastes = <<>> /\ cret = "none"
    /\ st = <<>> /\ fs = [p \in AllPaths |-> 0] /\ clientOk = FALSE
    /\ CleanIdle

NextCompose ==
    \/ combine_images_vertically_begin /\ UNCHANGED <<pipeVars, cleanVars>>
    \/ combine_images_vertically_paste /\ UNCHANGED <<pipeVars, cleanVars>>
    \/ combine_images_vertically_save /\ UNCHANGED <<pipeVars, cleanVars>>

SpecCompose == InitCompose /\ [][NextCompose]_vars

(* --------------------------- clean_result alone ----------------------- *)
\* space, A, B, e-acute, em space
Alphabet == {32, 65, 66, 233, 8195}

\* clean_result applied to a string
clean_result_call ==
    /\ spc = "start"
    /\ sout' = clean_result(sin)
    /\ spc' = "once"
    /\ UNCHANGED <<sin, sout2>>

\* clean_result applied to its own output
clean_result_again ==
    /\ spc = "once"
    /\ sout2' = clean_result(sout)
    /\ spc' = "twice"
    /\ UNCHANGED <<sin, sout>>

InitClean ==
    /\ sin \in SeqsUpTo(Alphabet, MaxLen)
    /\ spc = "start" /\ sout = <<>> /\ sout2 = <<>>
    /\ st = <<>> /\ fs = [p \in AllPaths |-> 0] /\ clientOk = FALSE
    /\ CompIdle

NextClean ==
    \/ clean_result_call /\ UNCHANGED <<pipeVars, compVars>>
    \/ clean_result_again /\ UNCHANGED <<pipeVars, compVars>>

SpecClean == InitClean /\ [][NextClean]_vars

(* ------------------------------- claims ------------------------------- *)
\* the files a request has written that are still in the temporary folder
FilesOf(r) == {p \in AllPaths : fs[p] = r}

\* pdf_to_images has returned or raised
LeftPdfToImages(r) == st[r].pc \in {"combine", "analyze", "encode", "cleanup", "done"}

\* C1: when the handler has returned and no removal failed, no temporary file
\* written while serving the request is left in the temporary folder.
C1_AllTempFilesRemoved ==
    \A r \in Reqs : (st[r].pc = "done" /\ ~st[r].rmFailed) => FilesOf(r) = {}

\* C2: once rasterization and compositing have succeeded, failed model calls
\* never abort the request: the handler goes through all six calls, the only
\* failure response it can still give is that of the encoding step, and the
\* rendered response maps the six fixed keys, in order, to an error indicator
\* for each failed call and to the cleaned text for each successful one.
C2_SectionFailuresDoNotAbort ==
    \A r \in Reqs :
      (st[r].raster = "ok" /\ st[r].composite_path \notin {Unset, None}) =>
        /\ st[r].pc \in {"analyze", "encode", "cleanup", "done"}
        /\ Len(st[r].results) = Len(st[r].raws)
        /\ st[r].pc # "analyze" => Len(st[r].results) = 6
        /\ st[r].retval.kind = "error" => st[r].retval.cause = "encode"
        /\ st[r].pc \in {"cleanup", "done"} => st[r].retval.kind \in {"rendered", "error"}
        /\ st[r].pc = "done" => st[r].response = st[r].retval
        /\ st[r].retval.kind = "rendered" =>
             /\ st[r].retval.results = st[r].results
             /\ \A k \in 1..6 :
                  /\ st[r].results[k].key = SectionKeys[k]
                  /\ st[r].results[k].err = ~st[r].raws[k].ok
                  /\ st[r].raws[k].ok =>
                       st[r].results[k].text = strip(SelectSeq(st[r].raws[k].raw, IsAscii))
                  /\ ~st[r].raws[k].ok =>
                       st[r].results[k] = ErrorIndicator(SectionKeys[k])

\* C2 witness: a rendered response in which the first model call failed and
\* the second succeeded.
C2_Witness ==
    \E r \in Reqs :
      /\ st[r].pc = "done"
      /\ st[r].response.kind = "rendered"
      /\ st[r].response.results[1].err
      /\ ~st[r].response.results[2].err

\* C3: when rasterization failed or yielded zero pages, the handler never
\* enters the compositing result or the model calls, holds no section result,
\* and returns a failure response.
C3_RasterFailureAborts ==
    \A r \in Reqs :
      (st[r].raster = "failed" \/ (st[r].raster = "ok" /\ st[r].image_paths = <<>>)) =>
        /\ st[r].pc \notin {"analyze", "encode"}
        /\ st[r].results = <<>>
        /\ st[r].composite_path = Unset
        /\ st[r].pc = "done" => st[r].response.kind = "error"

\* C4: cleanup never raises and never replaces the response: what the caller
\* receives is the value the handler returned before its finally clause.
C4_CleanupNeverChangesResponse ==
    \A r \in Reqs :
      (st[r].pc = "done" /\ st[r].upload = "valid") => st[r].response = st[r].retval

\* C5: combine_images_vertically given zero images does not return normally.
C5_EmptyInputFails ==
    (cpc = "done" /\ cimgs = <<>>) => cret = "raise"

\* C6: a missing upload or an empty filename ends the handler at once with the
\* validation response: nothing was rasterized, composited or analyzed, no
\* temporary path was drawn and no temporary file exists.
C6_ValidationFailureTouchesNothing ==
    \A r \in Reqs :
      st[r].upload \in {"missing", "emptyname"} =>
        /\ st[r].pc = "done"
        /\ st[r].response = Redirect
        /\ st[r].temp_pdf_path = Unset
        /\ st[r].composite_path = Unset
        /\ st[r].raster = "none"
        /\ st[r].image_paths = <<>> /\ st[r].temp_paths = <<>>
        /\ st[r].results = <<>>
        /\ st[r].live = {}
        /\ \A p \in AllPaths : fs[p] = 0

\* C6 witness: a request with an empty filename has been answered.
C6_Witness ==
    \E r \in Reqs : st[r].upload = "emptyname" /\ st[r].pc = "done"

\* C7: for at least one image, once the paste loop is over the canvas is as
\* wide as the widest page and as high as all pages together, page i is pasted
\* at x = 0 right below page i - 1 (the first at y = 0, the last ending at the
\* bottom of the canvas), in input order.
C7_CompositeLayout ==
    (cpc \in {"save", "done"} /\ Len(cimgs) >= 1) =>
      /\ \A i \in 1..Len(cimgs) : cimgs[i].w <= canvas[1]
      /\ \E i \in 1..Len(cimgs) : cimgs[i].w = canvas[1]
      /\ Len(pastes) = Len(cimgs)
      /\ \A i \in 1..Len(pastes) : pastes[i].src = i /\ pastes[i].x = 0
      /\ pastes[1].y = 0
      /\ \A i \in 1..(Len(pastes) - 1) : pastes[i + 1].y = pastes[i].y + cimgs[i].h
      /\ pastes[Len(pastes)].y + cimgs[Len(cimgs)].h = canvas[2]
      /\ \A i \in 1..Len(pastes) : pastes[i].y = SumHeight(cimgs, i - 1)

\* C7 witness: three pages of different widths and heights have been pasted.
C7_Witness ==
    /\ cpc = "done" /\ cret = "composite_path"
    /\ Len(cimgs) = 3
    /\ cimgs[1].w # cimgs[2].w
    /\ cimgs[1].h # cimgs[2].h

\* C8: no two requests hold the same temporary path at the same time.
C8_NoNameCollision ==
    \A r1, r2 \in Reqs : r1 # r2 => st[r1].live \cap st[r2].live = {}

\* C9: once pdf_to_images has returned or raised, the temporary PDF it
\* created is gone (whenever its own removal did not fail).
C9_InputPdfReleased ==
    \A r \in Reqs :
      (LeftPdfToImages(r) /\ st[r].temp_pdf_path # Unset /\ ~st[r].rmFailed)
        => fs[st[r].temp_pdf_path] = 0

\* C10: the output of clean_result is the ASCII code points of the input, in
\* order, without the leading and trailing whitespace (a slice of them whose
\* dropped ends are whitespace and whose own ends are not), and a second
\* application changes nothing.
C10_CleanResult ==
    spc # "start" =>
      LET a == SelectSeq(sin, IsAscii)
      IN  /\ \A k \in 1..Len(sout) : IsAscii(sout[k])
          /\ \E i \in 1..(Len(a) + 1) : \E j \in 0..Len(a) :
               /\ sout = SubSeq(a, i, j)
               /\ \A k \in 1..(i - 1) : IsSpace(a[k])
               /\ \A k \in (j + 1)..Len(a) : IsSpace(a[k])
          /\ sout # <<>> => ~IsSpace(sout[1]) /\ ~IsSpace(sout[Len(sout)])
          /\ spc = "twice" => sout2 = sout

\* C10 witness: an input with a non-ASCII code point and outer whitespace has
\* been cleaned twice, leaving text.
C10_Witness ==
    /\ spc = "twice"
    /\ \E k \in 1..Len(sin) : ~IsAscii(sin[k])
    /\ Len(sin) >= 1 /\ IsSpace(sin[1])
    /\ sout # <<>>
====
